---- MODULE Spec2Model ----
(***************************************************************************)
(* Model of backend/main.py: the POST /generate handler, the process-wide  *)
(* conversation memory and the word-chunked response stream.               *)
(*                                                                         *)
(* Text is a sequence of one-character strings, so that split(), strip()   *)
(* and len() are computed character by character as Python computes them.  *)
(* Requests are asyncio tasks on one event loop: `running` is the task     *)
(* that occupies the loop; a task gives the loop up only where its code    *)
(* awaits (asyncio.sleep in the stream) or ends.                           *)
(***************************************************************************)
EXTENDS Naturals, Sequences, FiniteSets

\* ------------------------------------------------------------------ bounds
MaxRequests == 2
MaxTokens == 4

\* --------------------------------------------------------- program constants
Threshold == 20

Requests == 1..MaxRequests
NoTask == 0

\* ------------------------------------------------------------------- texts
Whitespace == {" ", "\t", "\n", "\r"}

Delimiter == <<"\n", "\n">>

Hello == <<"H", "e", "l", "l", "o">>

Scenario ==
    <<"H", "i", " ", "t", "h", "e", "r", "e", ",", " ", "h", "o", "w", " ",
      "c", "a", "n", " ", "I", " ", "h", "e", "l", "p", " ", "y", "o", "u",
      " ", "t", "o", "d", "a", "y", " ", "f", "r", "i", "e", "n", "d">>

LongWord ==
    <<"c", "o", "n", "v", "e", "r", "s", "a", "t", "i", "o", "n", "a", "l",
      "c", "h", "a", "t", "b", "o", "t">>

Tokens ==
    { <<" ">>, <<"\n">>, <<"I">>,
      <<"t", "h", "e", "r", "e", ",">>,
      <<"a", "s", "s", "i", "s", "t", "a", "n", "t">>,
      LongWord }

RECURSIVE TextsUpTo(_)
TextsUpTo(n) ==
    IF n = 0 THEN { <<>> }
    ELSE LET S == TextsUpTo(n - 1)
         IN  S \cup { t \o k : t \in S, k \in Tokens }

\* The queries a client posts (the empty string is accepted, UserInput.query: str).
Queries == { <<>>, Hello }

\* The texts the provider answers with in the request-level specification.
ProviderTexts == { <<>>, Scenario, LongWord }

\* The texts the provider answers with in the stream-level specification.
StreamTexts == TextsUpTo(MaxTokens) \cup { Scenario }

\* ------------------------------------------------------- Python str helpers
\* str.split() with no argument: the maximal runs of non-whitespace characters,
\* in the order of the text; no empty word, whatever whitespace surrounds them.
WordStarts(text) ==
    { k \in 1..Len(text) :
        text[k] \notin Whitespace /\ (k = 1 \/ text[k - 1] \in Whitespace) }

WordEnd(text, k) ==
    CHOOSE j \in k..Len(text) :
        /\ \A m \in k..j : text[m] \notin Whitespace
        /\ (j = Len(text) \/ text[j + 1] \in Whitespace)

Split(text) ==
    LET starts == WordStarts(text)
        nth(n) == CHOOSE k \in starts : Cardinality({ j \in starts : j < k }) = n - 1
    IN  [ n \in 1..Cardinality(starts) |-> SubSeq(text, nth(n), WordEnd(text, nth(n))) ]

\* str.strip() with no argument: leading and trailing whitespace removed.
RECURSIVE LStrip(_)
LStrip(text) ==
    IF text # <<>> /\ Head(text) \in Whitespace THEN LStrip(Tail(text)) ELSE text

RECURSIVE RStrip(_)
RStrip(text) ==
    IF text # <<>> /\ text[Len(text)] \in Whitespace
    THEN RStrip(SubSeq(text, 1, Len(text) - 1))
    ELSE text

\* Faulty variant: only the leading whitespace is removed (lstrip for strip).
StripLeftOnly(text) == LStrip(text)

Strip(text) == RStrip(LStrip(text))

\* Faulty variant: the buffer is sent with its trailing space.
FormatChunkNoStrip(buffer) == buffer \o Delimiter

\* f"{buffer.strip()}\n\n"
FormatChunk(buffer) == Strip(buffer) \o Delimiter

\* Faulty variant: the chunk is flushed when the buffer reaches the threshold.
OverThresholdInclusive(buffer) == Len(buffer) >= Threshold

\* len(buffer) > 20
OverThreshold(buffer) == Len(buffer) > Threshold

\* Faulty variant: the words are accumulated without the separating space.
AddWordNoSpace(buffer, word) == buffer \o word

\* buffer += word + " "
AddWord(buffer, word) == buffer \o word \o <<" ">>

\* --------------------------------------------------------------- the memory
HumanMessage(text) == [type |-> "human", content |-> text]
AIMessage(text) == [type |-> "ai", content |-> text]

\* Faulty variants of save_context: the output is dropped; only the last
\* exchange is kept (a window of one).
SavedContextInputOnly(messages, q, text) == messages \o << HumanMessage(q) >>

SavedContextWindow(messages, q, text) == << HumanMessage(q), AIMessage(text) >>

\* memory.save_context({"input": q}, {"output": result})
SavedContext(messages, q, text) == messages \o << HumanMessage(q), AIMessage(text) >>

\* memory.load_memory_variables({}).get("chat_history", [])
LoadedHistory(messages) == messages

\* ------------------------------------------------------------ the responses
\* Faulty variant: the broad except clause comes first and catches everything.
HandleExceptionBroadFirst(exc) == [status |-> 500, detail |-> "Internal server error."]

\* What the except clauses of generate_response turn an exception into.
HandleException(exc) ==
    IF exc = "GenerationError"
    THEN [status |-> 500, detail |-> "AI generation error."]
    ELSE [status |-> 500, detail |-> "Internal server error."]

StreamingResponse == [status |-> 200, detail |-> "text/event-stream"]

NoOutcome == [status |-> 0, detail |-> ""]

NoResponse == [ok |-> FALSE, text |-> <<>>]

NoPrompt == [history |-> <<>>, query |-> <<>>]

\* What model.generate_content may return in the request-level specification.
ProviderResponses == [ok : {TRUE}, text : ProviderTexts] \cup {NoResponse}

\* What model.generate_content may return in the stream-level specification.
StreamResponses == [ok : {TRUE}, text : StreamTexts]

\* ------------------------------------------------------------------- state
VARIABLES
    memory,         \* chat_memory.messages of the module-level `memory`
    running,        \* the task occupying the event loop, NoTask if none
    pc,             \* pc[r]: where request r's task is
    query,          \* user_input.query
    before,         \* the messages of memory when the handler was entered
    past_messages,  \* the local past_messages
    full_prompt,    \* the local full_prompt: the history and the query it embeds
    response,       \* the local response of model.generate_content
    result,         \* the local result
    entryAt,        \* index in memory of the request's own human message, 0 if none
    loadedAfter,    \* <<n>> once the history is loaded, after n save_context calls
    words,          \* result.split() of the running generator
    idx,            \* index of the next word of the for loop
    buffer,         \* the local buffer of stream_response
    chunks,         \* the chunks the stream has yielded so far
    sleeps,         \* how many times the stream has awaited asyncio.sleep
    outcome,        \* the HTTP outcome of the request
    exception,      \* the class of the exception raised in the try block, "" if none
    disconnected    \* the client has gone away

vars == << memory, running, pc, query, before, past_messages, full_prompt,
           response, result, entryAt, loadedAfter, words, idx, buffer, chunks,
           sleeps, outcome, exception, disconnected >>

handlerVars == << before, past_messages, full_prompt, response, result, entryAt,
                 loadedAfter >>
streamVars == << words, idx, buffer, chunks, sleeps >>

Init ==
    /\ memory = <<>>
    /\ running = NoTask
    /\ pc = [r \in Requests |-> "idle"]
    /\ query = [r \in Requests |-> <<>>]
    /\ before = [r \in Requests |-> <<>>]
    /\ past_messages = [r \in Requests |-> <<>>]
    /\ full_prompt = [r \in Requests |-> NoPrompt]
    /\ response = [r \in Requests |-> NoResponse]
    /\ result = [r \in Requests |-> <<>>]
    /\ entryAt = [r \in Requests |-> 0]
    /\ loadedAfter = [r \in Requests |-> <<>>]
    /\ words = [r \in Requests |-> <<>>]
    /\ idx = [r \in Requests |-> 1]
    /\ buffer = [r \in Requests |-> <<>>]
    /\ chunks = [r \in Requests |-> <<>>]
    /\ sleeps = [r \in Requests |-> 0]
    /\ outcome = [r \in Requests |-> NoOutcome]
    /\ exception = [r \in Requests |-> ""]
    /\ disconnected = [r \in Requests |-> FALSE]

\* ---------------------------------------------------------------- handler
\* A POST /generate with body {"query": q} arrives; its task waits for the loop.
Receive(r, q) ==
    /\ pc[r] = "idle"
    /\ pc' = [pc EXCEPT ![r] = "ready"]
    /\ query' = [query EXCEPT ![r] = q]
    /\ UNCHANGED << memory, running, handlerVars, streamVars, outcome, disconnected, exception >>

\* The exception leaves the try block: the except clauses answer, the task ends.
Raise(r, exc) ==
    /\ pc' = [pc EXCEPT ![r] = "failed"]
    /\ exception' = [exception EXCEPT ![r] = exc]
    /\ outcome' = [outcome EXCEPT ![r] = HandleException(exc)]
    /\ running' = NoTask

\* The loop runs the handler: genai.GenerativeModel('gemini-1.5-flash') is built.
Begin(r) ==
    /\ pc[r] = "ready"
    /\ running = NoTask
    /\ running' = r
    /\ before' = [before EXCEPT ![r] = memory]
    /\ pc' = [pc EXCEPT ![r] = "load"]
    /\ UNCHANGED << memory, query, past_messages, full_prompt, response, result,
                    entryAt, loadedAfter, streamVars, outcome, disconnected, exception >>

\* genai.GenerativeModel(...) raises.
BeginFails(r) ==
    /\ pc[r] = "ready"
    /\ running = NoTask
    /\ before' = [before EXCEPT ![r] = memory]
    /\ Raise(r, "Exception")
    /\ UNCHANGED << memory, query, past_messages, full_prompt, response, result,
                    entryAt, loadedAfter, streamVars, disconnected >>

\* The number of save_context calls made so far.
Saves == Cardinality({ o \in Requests : entryAt[o] # 0 })

\* Faulty variant: loading hands the messages over and leaves the memory empty.
LoadMemoryClears(r) ==
    /\ pc[r] = "load"
    /\ running = r
    /\ past_messages' = [past_messages EXCEPT ![r] = LoadedHistory(memory)]
    /\ full_prompt' = [full_prompt EXCEPT ![r] =
                          [history |-> LoadedHistory(memory), query |-> query[r]]]
    /\ loadedAfter' = [loadedAfter EXCEPT ![r] = << Saves >>]
    /\ memory' = <<>>
    /\ pc' = [pc EXCEPT ![r] = "call"]
    /\ UNCHANGED << running, query, before, response, result, entryAt,
                    streamVars, outcome, disconnected, exception >>

\* history is loaded and the prompt is built from it and the query.
LoadMemory(r) ==
    /\ pc[r] = "load"
    /\ running = r
    /\ past_messages' = [past_messages EXCEPT ![r] = LoadedHistory(memory)]
    /\ full_prompt' = [full_prompt EXCEPT ![r] =
                          [history |-> LoadedHistory(memory), query |-> query[r]]]
    /\ loadedAfter' = [loadedAfter EXCEPT ![r] = << Saves >>]
    /\ pc' = [pc EXCEPT ![r] = "call"]
    /\ UNCHANGED << memory, running, query, before, response, result, entryAt,
                    streamVars, outcome, disconnected, exception >>

\* Faulty variant: the provider is called with await (generate_content_async),
\* so the task gives the loop up during the call.
ProviderCallAwaitedYes == TRUE

\* model.generate_content(full_prompt) is a plain call in an async def: the
\* task keeps the event loop for the duration of the call.
ProviderCallAwaited == FALSE

\* The task that may take the step after the provider call.
AfterCall(r) == IF ProviderCallAwaited THEN NoTask ELSE r

\* model.generate_content(full_prompt) returns: the response carries a text, or
\* none (a blocked or empty candidate).
GenerateContent(r, responses) ==
    /\ pc[r] = "call"
    /\ running = r
    /\ \E resp \in responses : response' = [response EXCEPT ![r] = resp]
    /\ pc' = [pc EXCEPT ![r] = "text"]
    /\ running' = AfterCall(r)
    /\ UNCHANGED << memory, query, before, past_messages, full_prompt,
                    result, entryAt, loadedAfter, streamVars, outcome, disconnected,
                    exception >>

\* Faulty variant: the query is saved before the provider is called, so a
\* failed call leaves it in the memory.
GenerateContentFailsSaved(r, exc) ==
    /\ pc[r] = "call"
    /\ running = r
    /\ memory' = SavedContext(memory, query[r], <<>>)
    /\ Raise(r, exc)
    /\ UNCHANGED << query, handlerVars, streamVars, disconnected >>

\* model.generate_content(full_prompt) raises.
GenerateContentFails(r, exc) ==
    /\ pc[r] = "call"
    /\ running = r
    /\ Raise(r, exc)
    /\ UNCHANGED << memory, query, handlerVars, streamVars, disconnected >>

\* result = response.text
ResponseText(r) ==
    /\ pc[r] = "text"
    /\ running = AfterCall(r)
    /\ response[r].ok
    /\ result' = [result EXCEPT ![r] = response[r].text]
    /\ pc' = [pc EXCEPT ![r] = "save"]
    /\ running' = r
    /\ UNCHANGED << memory, query, before, past_messages, full_prompt,
                    response, entryAt, loadedAfter, streamVars, outcome, disconnected,
                    exception >>

\* response.text raises: the response has no text part.
ResponseTextFails(r) ==
    /\ pc[r] = "text"
    /\ running = AfterCall(r)
    /\ ~response[r].ok
    /\ Raise(r, "Exception")
    /\ UNCHANGED << memory, query, handlerVars, streamVars, disconnected >>

\* Faulty variant: the exchange is not saved before the stream is returned.
SaveContextDeferred(r) ==
    /\ pc[r] = "save"
    /\ running = r
    /\ pc' = [pc EXCEPT ![r] = "return"]
    /\ UNCHANGED << memory, running, query, handlerVars, streamVars, outcome,
                    disconnected, exception >>

\* memory.save_context({"input": query}, {"output": result})
SaveContext(r) ==
    /\ pc[r] = "save"
    /\ running = r
    /\ memory' = SavedContext(memory, query[r], result[r])
    /\ entryAt' = [entryAt EXCEPT ![r] = Len(memory) + 1]
    /\ pc' = [pc EXCEPT ![r] = "return"]
    /\ UNCHANGED << running, query, before, past_messages, full_prompt, response,
                    result, loadedAfter, streamVars, outcome, disconnected, exception >>

\* return StreamingResponse(stream_response(), ...): the response starts and the
\* generator is entered: buffer = "", the for loop is over result.split().
Return(r) ==
    /\ pc[r] = "return"
    /\ running = r
    /\ outcome' = [outcome EXCEPT ![r] = StreamingResponse]
    /\ words' = [words EXCEPT ![r] = Split(result[r])]
    /\ idx' = [idx EXCEPT ![r] = 1]
    /\ buffer' = [buffer EXCEPT ![r] = <<>>]
    /\ pc' = [pc EXCEPT ![r] = "loop"]
    /\ UNCHANGED << memory, running, query, handlerVars, chunks, sleeps, disconnected, exception >>

\* ----------------------------------------------------------------- stream
\* One pass of the for loop up to the test: buffer += word + " ".
NextWord(r) ==
    /\ pc[r] = "loop"
    /\ running = r
    /\ idx[r] <= Len(words[r])
    /\ buffer' = [buffer EXCEPT ![r] = AddWord(buffer[r], words[r][idx[r]])]
    /\ idx' = [idx EXCEPT ![r] = idx[r] + 1]
    /\ pc' = [pc EXCEPT ![r] = IF OverThreshold(buffer'[r]) THEN "flush" ELSE "loop"]
    /\ UNCHANGED << memory, running, query, handlerVars, words, chunks, sleeps,
                    outcome, disconnected, exception >>

\* Faulty variant: the chunk is yielded and the loop goes on without the sleep.
FlushNoSleep(r) ==
    /\ pc[r] = "flush"
    /\ running = r
    /\ chunks' = [chunks EXCEPT ![r] = Append(chunks[r], FormatChunk(buffer[r]))]
    /\ buffer' = [buffer EXCEPT ![r] = <<>>]
    /\ pc' = [pc EXCEPT ![r] = "loop"]
    /\ UNCHANGED << memory, running, query, handlerVars, words, idx, sleeps, outcome,
                    disconnected, exception >>

\* yield the chunk, buffer = "", await asyncio.sleep(0.05): the task suspends.
Flush(r) ==
    /\ pc[r] = "flush"
    /\ running = r
    /\ chunks' = [chunks EXCEPT ![r] = Append(chunks[r], FormatChunk(buffer[r]))]
    /\ buffer' = [buffer EXCEPT ![r] = <<>>]
    /\ sleeps' = [sleeps EXCEPT ![r] = sleeps[r] + 1]
    /\ pc' = [pc EXCEPT ![r] = "sleep"]
    /\ running' = NoTask
    /\ UNCHANGED << memory, query, handlerVars, words, idx, outcome, disconnected, exception >>

\* Faulty variant: after the sleep the generator starts its loop over the
\* words again.
WakeRestarts(r) ==
    /\ pc[r] = "sleep"
    /\ running = NoTask
    /\ IF disconnected[r]
       THEN /\ pc' = [pc EXCEPT ![r] = "cancelled"]
            /\ UNCHANGED << running, idx >>
       ELSE /\ pc' = [pc EXCEPT ![r] = "loop"]
            /\ idx' = [idx EXCEPT ![r] = 1]
            /\ running' = r
    /\ UNCHANGED << memory, query, handlerVars, words, buffer, chunks, sleeps,
                    outcome, disconnected, exception >>

\* Faulty variant: the cancellation raised at the await is swallowed and the
\* generator goes on.
WakeIgnoresDisconnect(r) ==
    /\ pc[r] = "sleep"
    /\ running = NoTask
    /\ pc' = [pc EXCEPT ![r] = "loop"]
    /\ running' = r
    /\ UNCHANGED << memory, query, handlerVars, streamVars, outcome, disconnected, exception >>

\* The sleep is over and the loop is free: the generator goes on, or, the client
\* having gone away, the task is cancelled at this await.
Wake(r) ==
    /\ pc[r] = "sleep"
    /\ running = NoTask
    /\ IF disconnected[r]
       THEN /\ pc' = [pc EXCEPT ![r] = "cancelled"]
            /\ UNCHANGED running
       ELSE /\ pc' = [pc EXCEPT ![r] = "loop"]
            /\ running' = r
    /\ UNCHANGED << memory, query, handlerVars, streamVars, outcome, disconnected, exception >>

\* Faulty variant: the last chunk is yielded without the test of the buffer.
EndLoopAlwaysYields(r) ==
    /\ pc[r] = "loop"
    /\ running = r
    /\ idx[r] > Len(words[r])
    /\ chunks' = [chunks EXCEPT ![r] = Append(chunks[r], FormatChunk(buffer[r]))]
    /\ pc' = [pc EXCEPT ![r] = "done"]
    /\ running' = NoTask
    /\ UNCHANGED << memory, query, handlerVars, words, idx, buffer, sleeps,
                    outcome, disconnected, exception >>

\* The for loop is exhausted: if buffer: yield the last chunk; the stream ends.
EndLoop(r) ==
    /\ pc[r] = "loop"
    /\ running = r
    /\ idx[r] > Len(words[r])
    /\ chunks' = [chunks EXCEPT ![r] =
                     IF buffer[r] # <<>>
                     THEN Append(chunks[r], FormatChunk(buffer[r]))
                     ELSE chunks[r]]
    /\ pc' = [pc EXCEPT ![r] = "done"]
    /\ running' = NoTask
    /\ UNCHANGED << memory, query, handlerVars, words, idx, buffer, sleeps,
                    outcome, disconnected, exception >>

\* The client closes the connection of a request it has posted.
Disconnect(r) ==
    /\ pc[r] \notin {"idle", "failed", "done", "cancelled"}
    /\ ~disconnected[r]
    /\ disconnected' = [disconnected EXCEPT ![r] = TRUE]
    /\ UNCHANGED << memory, running, pc, query, handlerVars, streamVars, outcome, exception >>

\* ---------------------------------------------------------- specifications
Next ==
    \E r \in Requests :
        \/ \E q \in Queries : Receive(r, q)
        \/ Begin(r)
        \/ BeginFails(r)
        \/ LoadMemory(r)
        \/ GenerateContent(r, ProviderResponses)
        \/ \E exc \in {"GenerationError", "Exception"} : GenerateContentFails(r, exc)
        \/ ResponseText(r)
        \/ ResponseTextFails(r)
        \/ SaveContext(r)
        \/ Return(r)
        \/ NextWord(r)
        \/ Flush(r)
        \/ Wake(r)
        \/ EndLoop(r)
        \/ Disconnect(r)

Spec == Init /\ [][Next]_vars

\* The steps of request r's task, as the event loop runs them.
TaskStep(r) ==
    \/ Begin(r)
    \/ BeginFails(r)
    \/ LoadMemory(r)
    \/ GenerateContent(r, ProviderResponses)
    \/ \E exc \in {"GenerationError", "Exception"} : GenerateContentFails(r, exc)
    \/ ResponseText(r)
    \/ ResponseTextFails(r)
    \/ SaveContext(r)
    \/ Return(r)
    \/ NextWord(r)
    \/ Flush(r)
    \/ Wake(r)
    \/ EndLoop(r)

\* The event loop runs every task that is ready: a task that can take a step
\* takes one, an elapsed sleep is resumed once the loop is free.
FairSpec == Spec /\ \A r \in Requests : WF_vars(TaskStep(r))

\* One request against the empty memory, the provider answering any text of
\* StreamTexts: the specification of the stream's chunking.
StreamNext ==
    \/ \E q \in Queries : Receive(1, q)
    \/ Begin(1)
    \/ LoadMemory(1)
    \/ GenerateContent(1, StreamResponses)
    \/ ResponseText(1)
    \/ SaveContext(1)
    \/ Return(1)
    \/ NextWord(1)
    \/ Flush(1)
    \/ Wake(1)
    \/ EndLoop(1)

StreamSpec == Init /\ [][StreamNext]_vars

\* ------------------------------------------------------------------ claims
\* The conversation entries of a message list: (input, output) pairs in order.
Entries(messages) ==
    [ k \in 1..(Len(messages) \div 2) |->
        [input |-> messages[2 * k - 1].content, output |-> messages[2 * k].content] ]

IsPrefix(s, t) == Len(s) <= Len(t) /\ SubSeq(t, 1, Len(s)) = s

Failed(r) == pc[r] = "failed"

\* C1: a request whose provider call succeeds with text t leaves, when its
\* handler returns, the history it found on entry followed by exactly one
\* entry (query, t): one entry more, the earlier entries unchanged; the query
\* may be the empty string.
C1_SuccessAppendsOneEntry ==
    [][ \A r \in Requests :
          (pc[r] = "return" /\ pc'[r] = "loop") =>
              /\ Len(memory') = Len(before[r]) + 2
              /\ Len(Entries(memory')) = Len(Entries(before[r])) + 1
              /\ Entries(memory') =
                     Append(Entries(before[r]),
                            [input |-> query[r], output |-> response[r].text])
              /\ memory'[Len(memory') - 1].type = "human"
              /\ memory'[Len(memory')].type = "ai" ]_vars

\* A second request, with the empty query, has returned its stream after
\* appending to a non-empty history.
C1_Witness ==
    \E r \in Requests :
        /\ pc[r] = "loop" /\ idx[r] = 1 /\ chunks[r] = <<>>
        /\ query[r] = <<>>
        /\ response[r].text = Scenario
        /\ entryAt[r] = 3
        /\ Len(memory) = 4

\* C2: a request that fails leaves the history as it found it, never appends
\* its query, never emits a chunk, and stays failed: a failure outcome and a
\* started stream never occur for the same request.
C2_FailureLeavesHistoryAndNoStream ==
    [][ \A r \in Requests :
          /\ (pc'[r] = "failed" /\ pc[r] # "failed") => memory' = before'[r]
          /\ pc[r] = "failed" => pc'[r] = "failed"
          /\ pc'[r] = "failed" => (chunks'[r] = <<>> /\ entryAt'[r] = 0)
          /\ outcome'[r].status = 500 <=> pc'[r] = "failed"
          /\ chunks'[r] # <<>> => outcome'[r] = StreamingResponse ]_vars

\* A provider failure has happened on a history that another request had
\* extended, and that other request is streaming.
C2_Witness ==
    \E r, o \in Requests :
        /\ Failed(r) /\ exception[r] = "GenerationError"
        /\ before[r] # <<>> /\ memory = before[r]
        /\ chunks[o] # <<>>

\* C3: every failed request ends with HTTP 500, with detail "AI generation
\* error." when the provider call raised the generation-specific exception
\* and "Internal server error." for any other exception; no other status or
\* detail ends a failed request.
C3_FailureDetail ==
    \A r \in Requests :
        /\ Failed(r) <=> exception[r] # ""
        /\ Failed(r) =>
              /\ outcome[r].status = 500
              /\ exception[r] = "GenerationError" => outcome[r].detail = "AI generation error."
              /\ exception[r] # "GenerationError" => outcome[r].detail = "Internal server error."
        /\ ~Failed(r) => outcome[r].status \in {0, 200}

\* Both kinds of failure have happened.
C3_Witness ==
    \E r, o \in Requests :
        /\ Failed(r) /\ exception[r] = "GenerationError"
        /\ Failed(o) /\ exception[o] = "Exception"

\* C4: the history is append-only: every step leaves the messages it found
\* as a prefix of the messages it leaves, whatever requests succeed, fail or
\* are cancelled.
C4_AppendOnly == [][ IsPrefix(memory, memory') ]_vars

\* Two requests have appended; one was cancelled in its stream, one finished.
C4_Witness ==
    \E r, o \in Requests :
        /\ pc[r] = "cancelled" /\ pc[o] = "done"
        /\ Len(memory) = 4

\* ---------------------------------------------------- claims on the stream
Done(r) == pc[r] = "done"

\* A chunk without its trailing two-newline delimiter.
ChunkText(chunk) ==
    IF Len(chunk) >= 2 /\ SubSeq(chunk, Len(chunk) - 1, Len(chunk)) = Delimiter
    THEN SubSeq(chunk, 1, Len(chunk) - 2)
    ELSE chunk

ChunkTexts(cs) == [ k \in 1..Len(cs) |-> ChunkText(cs[k]) ]

\* The texts of a sequence joined with single spaces.
RECURSIVE JoinWithSpaces(_)
JoinWithSpaces(ts) ==
    IF ts = <<>> THEN <<>>
    ELSE IF Len(ts) = 1 THEN ts[1]
    ELSE ts[1] \o <<" ">> \o JoinWithSpaces(Tail(ts))

HasWord(text) == \E k \in 1..Len(text) : text[k] \notin Whitespace

\* The text is one word, with any whitespace around it and none inside it.
IsSingleWord(text) ==
    \E a, b \in 1..Len(text) :
        /\ a <= b
        /\ \A k \in 1..Len(text) : (text[k] \notin Whitespace) <=> (a <= k /\ k <= b)

WordLength(text) == Cardinality({ k \in 1..Len(text) : text[k] \notin Whitespace })

\* The text with surrounding whitespace removed and every inner run of
\* whitespace replaced by one space.
Normalized(text) ==
    LET keep == { k \in 1..Len(text) :
                    \/ text[k] \notin Whitespace
                    \/ /\ k > 1
                       /\ text[k - 1] \notin Whitespace
                       /\ \E m \in (k + 1)..Len(text) : text[m] \notin Whitespace }
        nth(n) == CHOOSE k \in keep : Cardinality({ j \in keep : j < k }) = n - 1
    IN  [ n \in 1..Cardinality(keep) |->
            IF text[nth(n)] \in Whitespace THEN " " ELSE text[nth(n)] ]

\* C5 as stated: the chunks, delimiters removed and joined with single
\* spaces, are the original response text.
C5_Original ==
    \A r \in Requests :
        Done(r) => JoinWithSpaces(ChunkTexts(chunks[r])) = result[r]

\* C5 (amended): the chunks of a finished stream, delimiters removed and
\* joined with single spaces, are the response text with surrounding
\* whitespace removed and every run of whitespace replaced by one space.
C5_RejoinIsNormalizedText ==
    \A r \in Requests :
        Done(r) =>
            /\ \A k \in 1..Len(chunks[r]) :
                   /\ Len(chunks[r][k]) > 2
                   /\ SubSeq(chunks[r][k], Len(chunks[r][k]) - 1, Len(chunks[r][k])) = Delimiter
            /\ JoinWithSpaces(ChunkTexts(chunks[r])) = Normalized(result[r])

\* A finished stream of several chunks whose response had whitespace that the
\* rejoined text does not have.
C5_Witness ==
    \E r \in Requests :
        /\ Done(r) /\ Len(chunks[r]) >= 2
        /\ result[r] # Normalized(result[r])

\* C6 as stated: a response shorter than the threshold yields exactly one
\* chunk, the whole response with surrounding whitespace trimmed.
C6_Original ==
    \A r \in Requests :
        (Done(r) /\ Len(result[r]) < Threshold) =>
            /\ Len(chunks[r]) = 1
            /\ ChunkText(chunks[r][1]) = Strip(result[r])

\* C6 (amended): a response shorter than the threshold that contains a word
\* yields exactly one chunk: the response with surrounding whitespace removed
\* and every inner run of whitespace replaced by one space.
C6_ShortResponseOneChunk ==
    \A r \in Requests :
        (Done(r) /\ Len(result[r]) < Threshold /\ HasWord(result[r])) =>
            /\ Len(chunks[r]) = 1
            /\ chunks[r][1] = Normalized(result[r]) \o Delimiter

\* A finished stream of a 19-character response of two words.
C6_Witness ==
    \E r \in Requests :
        /\ Done(r) /\ Len(result[r]) = Threshold - 1
        /\ Len(Split(result[r])) = 2
        /\ Len(chunks[r]) = 1

\* C7: a response without a word (empty or whitespace only) yields no chunk,
\* and a response of a single word shorter than the threshold yields exactly
\* one chunk.
C7_ZeroOrOneShortWord ==
    \A r \in Requests :
        Done(r) =>
            /\ ~HasWord(result[r]) => chunks[r] = <<>>
            /\ (IsSingleWord(result[r]) /\ WordLength(result[r]) < Threshold) =>
                   Len(chunks[r]) = 1

\* A finished stream of a whitespace-only, non-empty response.
C7_Witness ==
    \E r \in Requests :
        /\ Done(r) /\ outcome[r] = StreamingResponse
        /\ result[r] # <<>> /\ ~HasWord(result[r])
        /\ chunks[r] = <<>>

\* The reference greedy chunker over a sequence of words.
RECURSIVE Accumulated(_, _)
Accumulated(ws, n) == IF n = 0 THEN 0 ELSE Accumulated(ws, n - 1) + Len(ws[n]) + 1

\* The first word at which the accumulated length exceeds the threshold, 0 if none.
FlushAt(ws) ==
    LET over == { n \in 1..Len(ws) : Accumulated(ws, n) > 20 }
    IN  IF over = {} THEN 0 ELSE CHOOSE n \in over : \A m \in over : n <= m

RECURSIVE GreedyChunks(_)
GreedyChunks(ws) ==
    IF ws = <<>> THEN <<>>
    ELSE IF FlushAt(ws) = 0 THEN << JoinWithSpaces(ws) >>
    ELSE << JoinWithSpaces(SubSeq(ws, 1, FlushAt(ws))) >>
             \o GreedyChunks(SubSeq(ws, FlushAt(ws) + 1, Len(ws)))

ScenarioChunks ==
    << <<"H", "i", " ", "t", "h", "e", "r", "e", ",", " ", "h", "o", "w", " ",
         "c", "a", "n", " ", "I", " ", "h", "e", "l", "p", "\n", "\n">>,
       <<"y", "o", "u", " ", "t", "o", "d", "a", "y", " ", "f", "r", "i", "e",
         "n", "d", "\n", "\n">> >>

InHandler(p) == p \in {"load", "call", "text", "save", "return"}

\* C10: a task gives the event loop up only at the stream's asyncio.sleep (or
\* by ending); from the history read to the append the task keeps the loop,
\* no other request's task takes a step and nothing else writes the memory;
\* so the history in a request's prompt is exactly the messages that precede
\* the request's own entry.
C10_HandlerIsAtomic ==
    [][ \A r \in Requests :
          /\ (running = r /\ running' # r) => pc'[r] \in {"sleep", "done", "failed"}
          /\ InHandler(pc'[r]) => running' = r
          /\ InHandler(pc[r]) =>
                /\ \A o \in Requests \ {r} :
                       /\ pc'[o] = pc[o] \/ pc[o] = "idle"
                       /\ chunks'[o] = chunks[o]
                /\ memory' # memory => pc[r] = "save"
          /\ entryAt'[r] # 0 =>
                /\ past_messages'[r] = SubSeq(memory', 1, entryAt'[r] - 1)
                /\ full_prompt'[r] = [history |-> SubSeq(memory', 1, entryAt'[r] - 1),
                                      query |-> query'[r]]
                /\ memory'[entryAt'[r]] = HumanMessage(query'[r])
                /\ memory'[entryAt'[r] + 1] = AIMessage(result'[r]) ]_vars

\* A request has run its handler, from read to append, while another request
\* was suspended in its stream; both entries are in the history and the
\* second prompt holds the first entry.
C10_Witness ==
    \E r, o \in Requests :
        /\ r # o
        /\ pc[o] = "sleep" /\ entryAt[o] = 1
        /\ pc[r] = "return" /\ entryAt[r] = 3
        /\ Len(past_messages[r]) = 2
        /\ Len(memory) = 4

\* ------------------------------------------------- claims on cancellation
\* The request's own entry is in the history, where the request put it.
EntryKept(r) ==
    /\ entryAt[r] + 1 <= Len(memory)
    /\ memory[entryAt[r]] = HumanMessage(query[r])
    /\ memory[entryAt[r] + 1] = AIMessage(result[r])

\* C11: once the client of a stream has disconnected and the stream is at a
\* suspension point (its asyncio.sleep), the stream emits no further chunk:
\* it stays suspended until it is cancelled there; and the entry the request
\* appended stays in the history, during and after the cancellation.
C11_CancelStopsChunksKeepsEntry ==
    [][ \A r \in Requests :
          /\ (disconnected[r] /\ pc[r] \in {"sleep", "cancelled"}) =>
                /\ chunks'[r] = chunks[r]
                /\ pc'[r] \in {"sleep", "cancelled"}
          /\ pc'[r] = "cancelled" => (disconnected'[r] /\ EntryKept(r)')
          /\ (disconnected'[r] /\ entryAt[r] # 0) => EntryKept(r)' ]_vars

\* A stream was cancelled after its first chunk with words left to send, and
\* its entry is in the history, followed by another request's entry.
C11_Witness ==
    \E r \in Requests :
        /\ pc[r] = "cancelled"
        /\ Len(chunks[r]) = 1
        /\ idx[r] <= Len(words[r])
        /\ entryAt[r] = 1 /\ EntryKept(r)
        /\ Len(memory) = 4

C13_CallThenAppendThenChunk ==
    [][ \A r \in Requests :
          /\ (pc[r] = "call" /\ pc'[r] # "call") =>
                (entryAt[r] = 0 /\ entryAt'[r] = 0 /\ chunks'[r] = <<>>)
          /\ (entryAt[r] = 0 /\ entryAt'[r] # 0) =>
                /\ response[r].ok /\ result[r] = response[r].text
                /\ chunks[r] = <<>> /\ chunks'[r] = <<>>
                /\ EntryKept(r)'
          /\ chunks'[r] # chunks[r] =>
                /\ entryAt[r] # 0 /\ EntryKept(r)
                /\ response[r].ok
          /\ outcome'[r] = StreamingResponse => (entryAt'[r] # 0 /\ EntryKept(r)') ]_vars

\* The first chunk of a second request has been emitted; its entry is the
\* second of the history.
C13_Witness ==
    \E r \in Requests :
        /\ Len(chunks[r]) = 1 /\ pc[r] = "sleep"
        /\ entryAt[r] = 3 /\ EntryKept(r)
        /\ response[r].ok

\* ------------------------------------------------ claims on termination
\* C14: under fair scheduling every stream that has started finishes unless
\* it is cancelled; it never has emitted more chunks than the response has
\* words; and a finished stream stays finished and emits nothing more.
C14_StreamFinishes ==
    /\ \A r \in Requests : (pc[r] = "loop") ~> (pc[r] \in {"done", "cancelled"})
    /\ [](\A r \in Requests : Len(chunks[r]) <= Len(Split(result[r])))
    /\ [][ \A r \in Requests :
             Done(r) => (Done(r)' /\ chunks'[r] = chunks[r]) ]_vars

\* A stream has finished after a suspension, with as many chunks as it could
\* have for its words, while the other request's stream was suspended.
C14_Witness ==
    \E r, o \in Requests :
        /\ Done(r) /\ sleeps[r] = 1 /\ Len(chunks[r]) = 2
        /\ Len(chunks[r]) <= Len(Split(result[r]))
        /\ pc[o] = "sleep"

\* ---------------------------------------------------- claims on the pacing
\* The chunks whose text has at least Threshold characters: those the loop
\* flushed (the final partial chunk is shorter).
LoopFlushed(cs) == { k \in 1..Len(cs) : Len(ChunkText(cs[k])) >= Threshold }

\* C15 as stated: a finished stream has suspended exactly once between every
\* two consecutive chunks and at no other time: with n > 0 chunks it has
\* slept n - 1 times, with none it has not slept.
C15_Original ==
    \A r \in Requests :
        Done(r) =>
            sleeps[r] = IF chunks[r] = <<>> THEN 0 ELSE Len(chunks[r]) - 1

\* C15 (amended): the stream suspends exactly once right after every chunk
\* that its loop flushes, and at no other time: once between every two
\* consecutive chunks, never before the first chunk, and also after the last
\* chunk when the loop flushed it; only the final partial chunk, which ends
\* the stream, is followed by no suspension.
C15_SleepAfterEachLoopFlush ==
    [][ \A r \in Requests :
          /\ sleeps'[r] # sleeps[r] =>
                /\ sleeps'[r] = sleeps[r] + 1
                /\ Len(chunks'[r]) = Len(chunks[r]) + 1
                /\ pc'[r] = "sleep"
          /\ (chunks'[r] # chunks[r] /\ sleeps'[r] = sleeps[r]) =>
                /\ Done(r)'
                /\ Len(chunks'[r]) = Len(chunks[r]) + 1
                /\ Len(chunks'[r]) \notin LoopFlushed(chunks'[r])
          /\ sleeps'[r] = Cardinality(LoopFlushed(chunks'[r]))
          /\ sleeps'[r] <= Len(chunks'[r])
          /\ Len(chunks'[r]) <= sleeps'[r] + 1 ]_vars

\* A finished stream of two chunks, both flushed by the loop: it slept
\* between them and once more after the last one.
C15_Witness ==
    \E r \in Requests :
        /\ Done(r) /\ Len(chunks[r]) = 2 /\ sleeps[r] = 2
        /\ buffer[r] = <<>>

\* ------------------------------------------------- claims on every chunk
\* The words of the chunks, in order.
RECURSIVE WordsOfChunks(_)
WordsOfChunks(cs) ==
    IF cs = <<>> THEN <<>>
    ELSE Split(ChunkText(Head(cs))) \o WordsOfChunks(Tail(cs))

AllButLast(s) == SubSeq(s, 1, Len(s) - 1)

====
